---- MODULE Spec2Model ----
(***************************************************************************)
(* A model of crseg: the crossroad connection graph                        *)
(* (crossroad_connections.py, class CrossroadConnections) and the          *)
(* crossroad region builder (crossroad.py, class Crossroad).               *)
(*                                                                         *)
(* Python lists are sequences.  Python dicts are sequences of              *)
(* [key, val] records in insertion order, which is the order a Python      *)
(* dict is iterated in.                                                    *)
(***************************************************************************)
EXTENDS Integers, Sequences, FiniteSets, TLC

(***************************************************************************)
(* Bounds of the checked inputs.                                           *)
(***************************************************************************)
\* crossroad regions handed to CrossroadConnections; they get ids 1..NumCrossroads
NumCrossroads == 3
\* other regions (links, or regions of neither kind); ids follow the crossroads'
NumLinks == 3
\* most nodes in one link region
MaxLinkNodes == 3
\* get_cycles is called with max_length in 1..MaxCycleLength
MaxCycleLength == 6
\* the road networks get_cycles is studied on: RingCrossroads crossroads joined
\* by RingLinks links
RingCrossroads == 5
RingLinks == 6

\* max_branch_width() of a region, and the length of one edge of a link
Widths == {1, 2}
EdgeLens == {1, 3}

(***************************************************************************)
(* Program constants.                                                      *)
(***************************************************************************)
typology_crossroad == 1
typology_link == 2
typology_unknown == 0
\* the default of __init__'s connection_threshold
connection_threshold == 2

VARIABLES
    \* CrossroadConnections
    regions,                \* self.regions: region id -> region
    phase,                  \* "new" before __init__ ran, "built" after it
    crossroads,             \* self.crossroads
    links,                  \* self.links
    regionsByNode,          \* self.regionsByNode
    adjacencies,            \* self.adjacencies
    connected_crossroads,   \* self.connected_crossroads
    lastCall                \* the last query made on the object, with its result

connVars == <<regions, phase, crossroads, links, regionsByNode, adjacencies,
              connected_crossroads, lastCall>>

VARIABLES
    \* Crossroad.build_crossroads(G)
    G,                      \* the road network: nodes, neighbours, node and edge data
    nodeRegion,             \* the region a node is classified into, -1 for none
    edgeRegion,             \* the region an edge is classified into, -1 for none
    id_region,              \* the id the next Region gets
    scan,                   \* position of build_crossroads in G.nodes
    built,                  \* build_crossroads' list "crossroads"
    returned,               \* build_crossroads has returned "crossroads"
    lastGrow                \* what the last Crossroad(G, n) did, direction by direction

buildVars == <<G, nodeRegion, edgeRegion, id_region, scan, built, returned, lastGrow>>

VARIABLES
    cl_crossroads,   \* get_clusters: the argument crossroads
    cl_pc,           \* where get_clusters is: "idle", "outer", "inner", "done"
    cl_head,         \* index in crossroads of the outer loop's crossroad
    cl_visited,      \* visited
    cl_result,       \* result
    cl_cluster,      \* cluster
    cl_nbs,          \* cr_in_neigborhood
    cl_k,            \* index in cr_in_neigborhood of the inner loop's cr
    cl_matched,      \* the pairs <<crossroad.id, cr.id>> line 320 was true for
    cl_last          \* the branch of the loop body taken last

clusterVars == <<cl_crossroads, cl_pc, cl_head, cl_visited, cl_result, cl_cluster,
                 cl_nbs, cl_k, cl_matched, cl_last>>

vars == <<connVars, buildVars, clusterVars>>

\* no CrossroadConnections object is under study
IdleConn ==
    /\ regions = <<>>
    /\ phase = "idle"
    /\ crossroads = <<>>
    /\ links = <<>>
    /\ regionsByNode = <<>>
    /\ adjacencies = <<>>
    /\ connected_crossroads = <<>>
    /\ lastCall = [op |-> "none", max_length |-> 0, found |-> <<>>, result |-> <<>>]

\* no run of get_clusters is under study
IdleClusters ==
    /\ cl_crossroads = <<>>
    /\ cl_pc = "idle"
    /\ cl_head = 0
    /\ cl_visited = <<>>
    /\ cl_result = <<>>
    /\ cl_cluster = <<>>
    /\ cl_nbs = <<>>
    /\ cl_k = 0
    /\ cl_matched = {}
    /\ cl_last = "none"

\* no run of build_crossroads is under study
IdleBuild ==
    /\ G = <<>>
    /\ nodeRegion = <<>>
    /\ edgeRegion = <<>>
    /\ id_region = 0
    /\ scan = 0
    /\ built = <<>>
    /\ returned = FALSE
    /\ lastGrow = <<>>

(***************************************************************************)
(* Helpers: sequences and insertion-ordered dicts.                         *)
(***************************************************************************)
Range(s) == {s[i] : i \in DOMAIN s}

InSeq(x, s) == \E i \in DOMAIN s : s[i] = x

MaxOf(a, b) == IF a >= b THEN a ELSE b

Abs(x) == IF x < 0 THEN -x ELSE x

DictHas(d, k) == \E i \in DOMAIN d : d[i].key = k

DictGet(d, k) == d[CHOOSE i \in DOMAIN d : d[i].key = k].val

DictKeys(d) == [i \in DOMAIN d |-> d[i].key]

\* d[k] = v: a new key goes last, an existing key keeps its place
DictSet(d, k, v) ==
    IF DictHas(d, k)
    THEN [d EXCEPT ![CHOOSE i \in DOMAIN d : d[i].key = k] = [key |-> k, val |-> v]]
    ELSE Append(d, [key |-> k, val |-> v])

\* the increasing sequences over 1..n with lo..hi elements
IncSeqs(n, lo, hi) ==
    {s \in UNION {[1..k -> 1..n] : k \in lo..hi} :
        \A i \in 1..(Len(s) - 1) : s[i] < s[i + 1]}

\* the elements of a set of integers in increasing order
RECURSIVE SortedSeq(_)
SortedSeq(S) ==
    IF S = {} THEN <<>>
    ELSE LET m == CHOOSE x \in S : \A y \in S : x <= y
         IN  <<m>> \o SortedSeq(S \ {m})

(***************************************************************************)
(* The regions handed to CrossroadConnections.  Region, Crossroad's        *)
(* max_branch_width and Link are not part of the sources at hand: a region *)
(* is its id, what is_crossroad() and is_link() answer (kind), its node    *)
(* list, its max_branch_width() (width) and, for get_path, the length of   *)
(* each of its edges (len).                                                *)
(***************************************************************************)
RegionIds == 1..(NumCrossroads + NumLinks)

is_crossroad(r) == r.kind = "crossroad"

is_link(r) == r.kind = "link"

\* Crossroad k is grown around node k.
CrossroadRegion(k, w) ==
    [id |-> k, kind |-> "crossroad", nodes |-> <<k>>, width |-> w, len |-> 1]

\* The other regions run along a polyline through some of the crossroads' nodes.
OtherRegion(rid, k, ns, l) ==
    [id |-> rid, kind |-> k, nodes |-> ns, width |-> 1, len |-> l]

OtherIds == (NumCrossroads + 1)..(NumCrossroads + NumLinks)

\* Link.get_path(fromNodes, toNodes): the stretch of the link's polyline between
\* the closest pair of a from-node and a to-node, and its length.
get_path(r, fromNodes, toNodes) ==
    LET pairs == {<<i, j>> \in (DOMAIN r.nodes) \X (DOMAIN r.nodes) :
                     InSeq(r.nodes[i], fromNodes) /\ InSeq(r.nodes[j], toNodes)}
        best == CHOOSE p \in pairs :
                    \A q \in pairs :
                        \/ Abs(p[1] - p[2]) < Abs(q[1] - q[2])
                        \/ Abs(p[1] - p[2]) = Abs(q[1] - q[2]) /\ p[1] < q[1]
                        \/ Abs(p[1] - p[2]) = Abs(q[1] - q[2]) /\ p[1] = q[1] /\ p[2] <= q[2]
        lo == IF best[1] <= best[2] THEN best[1] ELSE best[2]
        hi == IF best[1] <= best[2] THEN best[2] ELSE best[1]
        fwd == SubSeq(r.nodes, lo, hi)
        path == IF best[1] <= best[2] THEN fwd
                ELSE [i \in DOMAIN fwd |-> fwd[Len(fwd) + 1 - i]]
    IN  [path |-> path, distance |-> (hi - lo) * r.len]

(***************************************************************************)
(* CrossroadConnections.init_structure and what it calls.                  *)
(***************************************************************************)
\* the region ids in the order self.regions is iterated
RidOrder(regs) == [i \in DOMAIN regs |-> i]

\* lines 23-27
crossroads_of(regs) == SelectSeq(RidOrder(regs), LAMBDA rid : is_crossroad(regs[rid]))

links_of(regs) ==
    SelectSeq(RidOrder(regs), LAMBDA rid : ~is_crossroad(regs[rid]) /\ is_link(regs[rid]))

get_typology(crs, lks, rid) ==
    IF InSeq(rid, crs) THEN typology_crossroad
    ELSE IF InSeq(rid, lks) THEN typology_link
    ELSE typology_unknown

add_node_region(rbn, rid, nid) ==
    IF ~DictHas(rbn, nid)
    THEN Append(rbn, [key |-> nid, val |-> <<rid>>])
    ELSE DictSet(rbn, nid, Append(DictGet(rbn, nid), rid))

(***************************************************************************)
(* A loop that updates a dict is a recursive operator over the loop index. *)
(* Each round's dict is bound by a one-element set before the next round   *)
(* starts ("CHOOSE r \in {Loop(d, i + 1) : d \in {...}} : TRUE" is         *)
(* Loop(..., i + 1) with the updated dict), so that the rounds are         *)
(* evaluated in the order the code runs them.                              *)
(***************************************************************************)
\* lines 30-33: for rid in self.regions: for n in self.regions[rid].nodes
RECURSIVE NodesOfRegion(_, _, _, _)
NodesOfRegion(rbn, regs, rid, i) ==
    IF i > Len(regs[rid].nodes) THEN rbn
    ELSE CHOOSE r \in {NodesOfRegion(d, regs, rid, i + 1) :
                          d \in {add_node_region(rbn, rid, regs[rid].nodes[i])}} : TRUE

RECURSIVE BuildRegionsByNode(_, _, _)
BuildRegionsByNode(rbn, regs, k) ==
    IF k > Len(RidOrder(regs)) THEN rbn
    ELSE CHOOSE r \in {BuildRegionsByNode(d, regs, k + 1) :
                          d \in {NodesOfRegion(rbn, regs, RidOrder(regs)[k], 1)}} : TRUE

\* lines 93-96: what one r2 does to self.adjacencies
AddAdjacency(adj, crs, lks, r1, node, r2) ==
    IF r2 # r1 /\ get_typology(crs, lks, r1) # get_typology(crs, lks, r2)
    THEN LET mine == DictGet(adj, r1)
             had == IF DictHas(mine, r2) THEN DictGet(mine, r2) ELSE <<>>
         IN  DictSet(adj, r1, DictSet(mine, r2, Append(had, node)))
    ELSE adj

\* line 92: for r2 in regions
RECURSIVE AddAdjacenciesLoop(_, _, _, _, _, _, _)
AddAdjacenciesLoop(adj, crs, lks, r1, node, rs, i) ==
    IF i > Len(rs) THEN adj
    ELSE CHOOSE r \in {AddAdjacenciesLoop(d, crs, lks, r1, node, rs, i + 1) :
                          d \in {AddAdjacency(adj, crs, lks, r1, node, rs[i])}} : TRUE

\* lines 89-96
add_adjacencies(adj, crs, lks, r1, node, rs) ==
    CHOOSE r \in {AddAdjacenciesLoop(d, crs, lks, r1, node, rs, 1) :
                     d \in {IF ~DictHas(adj, r1) THEN DictSet(adj, r1, <<>>) ELSE adj}} : TRUE

\* lines 40-42: for r1 in self.regionsByNode[n]
RECURSIVE AdjacenciesAtNode(_, _, _, _, _, _)
AdjacenciesAtNode(adj, crs, lks, node, rs, i) ==
    IF i > Len(rs) THEN adj
    ELSE CHOOSE r \in {AdjacenciesAtNode(d, crs, lks, node, rs, i + 1) :
                          d \in {add_adjacencies(adj, crs, lks, rs[i], node, rs)}} : TRUE

\* lines 36-42: for n in self.regionsByNode
RECURSIVE BuildAdjacencies(_, _, _, _, _)
BuildAdjacencies(adj, crs, lks, rbn, k) ==
    IF k > Len(rbn) THEN adj
    ELSE CHOOSE r \in {BuildAdjacencies(d, crs, lks, rbn, k + 1) :
                          d \in {AdjacenciesAtNode(adj, crs, lks, rbn[k].key, rbn[k].val, 1)}} : TRUE

\* lines 83-87
get_path_in_link(regs, rbn, l, cr1, cr2) ==
    LET cr1n == SelectSeq(regs[l].nodes, LAMBDA n : InSeq(cr1, DictGet(rbn, n)))
        cr2n == SelectSeq(regs[l].nodes, LAMBDA n : InSeq(cr2, DictGet(rbn, n)))
    IN  get_path(regs[l], cr1n, cr2n)

\* InitialConnection with line 75 as "!=": the pair is taken in both orders
InitialConnection_AnyOrder(regs, rbn, cr, l, cr2) ==
    IF regs[cr].id # regs[cr2].id
    THEN LET pd == get_path(regs[l],
                     SelectSeq(regs[l].nodes, LAMBDA n : InSeq(cr, DictGet(rbn, n))),
                     SelectSeq(regs[l].nodes, LAMBDA n : InSeq(cr2, DictGet(rbn, n))))
         IN  IF pd.distance < MaxOf(regs[cr].width, regs[cr2].width) * connection_threshold
             THEN <<[a |-> cr, b |-> cr2, ev |-> [path |-> pd.path, link |-> l]]>>
             ELSE <<>>
    ELSE <<>>

\* lines 75-79: what one (cr, l, cr2) adds to self.connected_crossroads
InitialConnection(regs, rbn, cr, l, cr2) ==
    IF regs[cr].id < regs[cr2].id
    THEN LET pd == get_path_in_link(regs, rbn, l, cr, cr2)
         IN  IF pd.distance < MaxOf(regs[cr].width, regs[cr2].width) * connection_threshold
             THEN <<[a |-> cr, b |-> cr2, ev |-> [path |-> pd.path, link |-> l]]>>
             ELSE <<>>
    ELSE <<>>

\* line 73: for cr2 in self.adjacencies[l]
RECURSIVE ConnectionsThroughLink(_, _, _, _, _, _)
ConnectionsThroughLink(regs, rbn, cr, l, cr2s, i) ==
    IF i > Len(cr2s) THEN <<>>
    ELSE InitialConnection(regs, rbn, cr, l, cr2s[i])
         \o ConnectionsThroughLink(regs, rbn, cr, l, cr2s, i + 1)

\* line 71: for l in self.adjacencies[cr]
RECURSIVE ConnectionsOfCrossroad(_, _, _, _, _, _)
ConnectionsOfCrossroad(regs, rbn, adj, cr, ls, i) ==
    IF i > Len(ls) THEN <<>>
    ELSE ConnectionsThroughLink(regs, rbn, cr, ls[i], DictKeys(DictGet(adj, ls[i])), 1)
         \o ConnectionsOfCrossroad(regs, rbn, adj, cr, ls, i + 1)

\* line 69: for cr in self.crossroads
RECURSIVE ConnectionsFrom(_, _, _, _, _)
ConnectionsFrom(regs, crs, rbn, adj, i) ==
    IF i > Len(crs) THEN <<>>
    ELSE ConnectionsOfCrossroad(regs, rbn, adj, crs[i], DictKeys(DictGet(adj, crs[i])), 1)
         \o ConnectionsFrom(regs, crs, rbn, adj, i + 1)

\* lines 66-79
compute_initial_connections(regs, crs, rbn, adj) == ConnectionsFrom(regs, crs, rbn, adj, 1)

\* lines 50-58: the dict merged, keyed by (c[0], c[1]).  Its keys are in the order
\* their first connection comes in cs; a key's value is the evidence of the
\* connections with that key, in their order in cs.
MergedKeys(cs) ==
    LET first == SelectSeq([i \in DOMAIN cs |-> i], LAMBDA i :
                     \A j \in 1..(i - 1) : <<cs[j].a, cs[j].b>> # <<cs[i].a, cs[i].b>>)
    IN  [k \in DOMAIN first |-> <<cs[first[k]].a, cs[first[k]].b>>]

MergedEvidence(cs, key) ==
    LET mine == SelectSeq(cs, LAMBDA c : <<c.a, c.b>> = key)
    IN  [i \in DOMAIN mine |-> mine[i].ev]

\* lines 60-64: new_list
MergeConnections(cs) ==
    LET keys == MergedKeys(cs)
    IN  [k \in DOMAIN keys |->
            [a |-> keys[k][1], b |-> keys[k][2], ev |-> MergedEvidence(cs, keys[k])]]

\* lines 47-64
compute_connected_crossroads(regs, crs, rbn, adj) ==
    MergeConnections(compute_initial_connections(regs, crs, rbn, adj))

(***************************************************************************)
(* The queries.                                                            *)
(***************************************************************************)
\* get_pairs with line 113 as "len(connected[2]) >= 1"
get_pairs_AnyEvidence(cc) == SelectSeq(cc, LAMBDA connected : Len(connected.ev) >= 1)

\* lines 112-113
get_pairs(cc) == SelectSeq(cc, LAMBDA connected : Len(connected.ev) > 1)

\* lines 137-144
get_connected_crossroads(cc, cr) ==
    LET mine == SelectSeq(cc, LAMBDA connected : connected.a = cr \/ connected.b = cr)
    IN  [i \in DOMAIN mine |->
            IF mine[i].a = cr THEN [cr |-> mine[i].b, ev |-> mine[i].ev]
            ELSE [cr |-> mine[i].a, ev |-> mine[i].ev]]

\* lines 168-176
contains_link(nextpathlinks, path) ==
    LET n_links == {nextpathlinks[i].link : i \in DOMAIN nextpathlinks}
    IN  \E i \in DOMAIN path : \E j \in DOMAIN path[i].ev : path[i].ev[j].link \in n_links

\* line 157: len(p) == 1 or (p[-2][0] != next[0] and not contains_link(next[1], p))
MayExtend(p, next) ==
    \/ Len(p) = 1
    \/ /\ p[Len(p) - 1].cr # next.cr
       /\ ~contains_link(next.ev, p)

\* lines 156-163, for one path p: the loops found and the paths still open
ExtendPath(cc, p) ==
    LET nexts == SelectSeq(get_connected_crossroads(cc, p[Len(p)].cr),
                           LAMBDA next : MayExtend(p, next))
        loops == SelectSeq(nexts, LAMBDA next : next.cr = p[1].cr)
        ongoing == SelectSeq(nexts, LAMBDA next : next.cr # p[1].cr)
    IN  [results |-> [i \in DOMAIN loops |-> Append(p, loops[i])],
         new_paths |-> [i \in DOMAIN ongoing |-> Append(p, ongoing[i])]]

\* lines 154-163: for p in paths
RECURSIVE RoundResults(_, _, _)
RoundResults(cc, paths, i) ==
    IF i > Len(paths) THEN <<>>
    ELSE ExtendPath(cc, paths[i]).results \o RoundResults(cc, paths, i + 1)

RECURSIVE RoundNewPaths(_, _, _)
RoundNewPaths(cc, paths, i) ==
    IF i > Len(paths) THEN <<>>
    ELSE ExtendPath(cc, paths[i]).new_paths \o RoundNewPaths(cc, paths, i + 1)

\* lines 151-164: the rounds l, l + 1, ... of the outer loop
RECURSIVE CyclesRounds(_, _, _, _)
CyclesRounds(cc, paths, l, max_length) ==
    IF l >= max_length THEN <<>>
    ELSE CHOOSE r \in {found \o CyclesRounds(cc, new_paths, l + 1, max_length) :
                          found \in {RoundResults(cc, paths, 1)},
                          new_paths \in {RoundNewPaths(cc, paths, 1)}} : TRUE

\* get_cycles_from_crossroad with line 151 as range(1, max_length): one round short
get_cycles_from_crossroad_OneShort(cc, cr, max_length) ==
    CyclesRounds(cc, << <<[cr |-> cr, ev |-> <<>>]>> >>, 1, max_length)

\* lines 146-166
get_cycles_from_crossroad(cc, cr, max_length) ==
    CyclesRounds(cc, << <<[cr |-> cr, ev |-> <<>>]>> >>, 0, max_length)

\* line 130
CycleElems(c) == {c[i].cr : i \in DOMAIN c}

\* lines 125-135
RECURSIVE UniqueCycles(_, _, _, _)
UniqueCycles(cycles, i, result, seen) ==
    IF i > Len(cycles) THEN result
    ELSE CHOOSE r \in {UniqueCycles(cycles, i + 1, res2, seen2) :
                          res2 \in {IF ~InSeq(CycleElems(cycles[i]), seen)
                                    THEN Append(result, cycles[i]) ELSE result},
                          seen2 \in {IF ~InSeq(CycleElems(cycles[i]), seen)
                                     THEN Append(seen, CycleElems(cycles[i])) ELSE seen}} : TRUE

\* get_unique_cycles with line 131 never true for a set seen before: nothing is dropped
get_unique_cycles_KeepAll(cycles) == cycles

get_unique_cycles(cycles) == UniqueCycles(cycles, 1, <<>>, <<>>)

\* lines 118-119: results before get_unique_cycles
RECURSIVE CyclesFrom(_, _, _, _)
CyclesFrom(cc, crs, i, max_length) ==
    IF i > Len(crs) THEN <<>>
    ELSE get_cycles_from_crossroad(cc, crs[i], max_length)
         \o CyclesFrom(cc, crs, i + 1, max_length)

AllCycles(cc, crs, max_length) == CyclesFrom(cc, crs, 1, max_length)

\* lines 115-123
get_cycles(cc, crs, max_length) == get_unique_cycles(AllCycles(cc, crs, max_length))

(***************************************************************************)
(* The state machine of one CrossroadConnections object.                   *)
(***************************************************************************)
NoCall == [op |-> "none", max_length |-> 0, found |-> <<>>, result |-> <<>>]

InitConn ==
    /\ \E ws \in [1..NumCrossroads -> Widths] :
       \E ns \in [OtherIds -> IncSeqs(NumCrossroads, 2, MaxLinkNodes)] :
       \E ls \in [OtherIds -> EdgeLens] :
       \E k \in {"link", "other"} :
          regions = [rid \in RegionIds |->
                        IF rid <= NumCrossroads THEN CrossroadRegion(rid, ws[rid])
                        ELSE OtherRegion(rid,
                                         IF rid = NumCrossroads + NumLinks THEN k ELSE "link",
                                         ns[rid], ls[rid])]
    /\ phase = "new"
    /\ crossroads = <<>>
    /\ links = <<>>
    /\ regionsByNode = <<>>
    /\ adjacencies = <<>>
    /\ connected_crossroads = <<>>
    /\ lastCall = NoCall
    /\ IdleBuild
    /\ IdleClusters

\* CrossroadConnections(regions): __init__ and, through it, init_structure
\* (lines 17-45) and compute_connected_crossroads
init_structure ==
    /\ phase = "new"
    /\ \E crs \in {crossroads_of(regions)} :
       \E lks \in {links_of(regions)} :
       \E rbn \in {BuildRegionsByNode(<<>>, regions, 1)} :
       \E adj \in {BuildAdjacencies(<<>>, crs, lks, rbn, 1)} :
       \E cc \in {compute_connected_crossroads(regions, crs, rbn, adj)} :
          /\ crossroads' = crs
          /\ links' = lks
          /\ regionsByNode' = rbn
          /\ adjacencies' = adj
          /\ connected_crossroads' = cc
    /\ phase' = "built"
    /\ UNCHANGED <<regions, lastCall>>
    /\ UNCHANGED <<buildVars, clusterVars>>

\* a call of get_pairs()
GetPairs ==
    /\ phase = "built"
    /\ lastCall = NoCall
    /\ \E result \in {get_pairs(connected_crossroads)} :
          lastCall' = [op |-> "get_pairs", max_length |-> 0, found |-> <<>>,
                       result |-> result]
    /\ UNCHANGED <<regions, phase, crossroads, links, regionsByNode, adjacencies,
                   connected_crossroads>>
    /\ UNCHANGED <<buildVars, clusterVars>>

\* a call of get_cycles(max_length); found is results before get_unique_cycles
GetCycles ==
    /\ phase = "built"
    /\ lastCall = NoCall
    /\ \E max_length \in 1..MaxCycleLength :
       \E found \in {AllCycles(connected_crossroads, crossroads, max_length)} :
       \E result \in {get_unique_cycles(found)} :
          lastCall' = [op |-> "get_cycles", max_length |-> max_length,
                       found |-> found, result |-> result]
    /\ UNCHANGED <<regions, phase, crossroads, links, regionsByNode, adjacencies,
                   connected_crossroads>>
    /\ UNCHANGED <<buildVars, clusterVars>>

\* the caller drops the result; the object is as it was
DropResult ==
    /\ lastCall # NoCall
    /\ lastCall' = NoCall
    /\ UNCHANGED <<regions, phase, crossroads, links, regionsByNode, adjacencies,
                   connected_crossroads>>
    /\ UNCHANGED <<buildVars, clusterVars>>

NextConn == init_structure \/ GetPairs \/ GetCycles \/ DropResult

SpecConn == InitConn /\ [][NextConn]_vars

(***************************************************************************)
(* get_cycles on larger road networks: RingCrossroads crossroads, crossroad *)
(* k grown around node k, and RingLinks links, each a road between two      *)
(* crossroads, no two links between the same two crossroads.  All           *)
(* crossroads have the same width and all links the same length.           *)
(***************************************************************************)
\* the roads a link may be: the pairs <<a, b>> of crossroad nodes with a < b
Roads == IncSeqs(RingCrossroads, 2, 2)

\* the roads of a network in the order their links get their ids
RoadOrder(rs) ==
    SortedSeq({r[1] * (RingCrossroads + 1) + r[2] : r \in rs})

RoadOf(code) == <<code \div (RingCrossroads + 1), code % (RingCrossroads + 1)>>

InitCycles ==
    /\ \E rs \in {S \in SUBSET Roads : Cardinality(S) = RingLinks} :
       \E w \in Widths :
       \E l \in EdgeLens :
          regions = [rid \in 1..(RingCrossroads + RingLinks) |->
                        IF rid <= RingCrossroads THEN CrossroadRegion(rid, w)
                        ELSE OtherRegion(rid, "link",
                                         RoadOf(RoadOrder(rs)[rid - RingCrossroads]), l)]
    /\ phase = "new"
    /\ crossroads = <<>>
    /\ links = <<>>
    /\ regionsByNode = <<>>
    /\ adjacencies = <<>>
    /\ connected_crossroads = <<>>
    /\ lastCall = NoCall
    /\ IdleBuild
    /\ IdleClusters

NextCycles == init_structure \/ GetCycles \/ DropResult

SpecCycles == InitCycles /\ [][NextCycles]_vars

(***************************************************************************)
(* crossroad.py: the road network G.                                       *)
(*                                                                         *)
(* G is an undirected graph (the caller builds it with get_undirected).    *)
(* G.nodes is the sequence 1..NumNodes; an edge is the set of its two      *)
(* ends; G.adj[n] is the sequence G.neighbors(n) iterates.                 *)
(***************************************************************************)
\* nodes of the road network
NumNodes == 4

Nodes == 1..NumNodes

\* Python's None where a node is expected
None == 0

Edge(a, b) == {a, b}

\* the road networks that are built on: a star around node c, a path and a ring
\* through the nodes lo..hi, and a ring with one more road leaving it
StarAt(c) == {Edge(c, m) : m \in Nodes \ {c}}

PathOn(lo, hi) == {Edge(i, i + 1) : i \in lo..(hi - 1)}

RingOn(lo, hi) == PathOn(lo, hi) \cup {Edge(lo, hi)}

Graphs ==
    { StarAt(1),
      StarAt(2),
      PathOn(1, NumNodes),
      RingOn(1, NumNodes),
      RingOn(1, NumNodes - 1) \cup {Edge(NumNodes - 1, NumNodes)},
      RingOn(2, NumNodes) \cup {Edge(1, 2)} }

\* the length of an edge, in metres
EdgeLengths == {5, 14}

\* what Reliability says of a node: nothing, weakly or strongly boundary,
\* weakly or strongly in a crossroad
Marks == {"none", "wb", "sb", "wc"}

\* a Python string base + "_link" * links
Str(base, k) == [base |-> base, links |-> k]

\* the value of an edge's "highway" key; Absent when the edge has no such key
Absent == Str("", 0)

HighwayTags == {Absent, Str("primary", 0), Str("primary", 1)}

\* the graph with edge set es, all edges l metres long and tagged highway = h,
\* the edges of js with a "junction" key, the edges of cs weakly in a crossroad
Graph(es, marks, l, h, js, cs) ==
    [edges |-> es,
     adj |-> [n \in Nodes |-> SortedSeq({m \in Nodes : Edge(n, m) \in es})],
     mark |-> marks,
     length |-> [e \in es |-> l],
     highway |-> [e \in es |-> h],
     junction |-> js,
     cr_edges |-> cs]

\* list(G.neighbors(n))
neighbors(g, n) == g.adj[n]

\* the edge of es that comes first
FirstEdge(es) ==
    CHOOSE e \in es : \A f \in es :
        LET e1 == CHOOSE x \in e : \A y \in e : x <= y
            e2 == CHOOSE x \in e : \A y \in e : x >= y
            f1 == CHOOSE x \in f : \A y \in f : x <= y
            f2 == CHOOSE x \in f : \A y \in f : x >= y
        IN  e1 < f1 \/ (e1 = f1 /\ e2 <= f2)

(***************************************************************************)
(* reliability.py, utils.py and region.py are not in src/: Reliability,    *)
(* Util and Region are modelled from their description in the              *)
(* specification (sections 3, 4.1, 4.2, 6 and the glossary).               *)
(***************************************************************************)
is_weakly_boundary(g, n) == g.mark[n] \in {"wb", "sb"}

is_strong_boundary(g, n) == g.mark[n] = "sb"

is_weakly_in_crossroad(g, n) == g.mark[n] \in {"wc", "sc"}

is_strong_in_crossroad(g, n) == g.mark[n] = "sc"

is_weakly_in_crossroad_edge(g, a, b) == Edge(a, b) \in g.cr_edges

\* Util.length(G, path): the sum of the lengths of the path's edges
RECURSIVE length(_, _)
length(g, path) ==
    IF Len(path) < 2 THEN 0
    ELSE g.length[Edge(path[1], path[2])] + length(g, Tail(path))

\* Util.get_path_to_biffurcation(G, start, next, radius): walk from start through
\* next along nodes of degree 2, up to a branching point; with a radius the walk
\* also ends once it is radius.num / radius.den long.  NoRadius is the call
\* without a radius.
NoRadius == [num |-> -1, den |-> 1]

RECURSIVE PathToBiffurcation(_, _, _)
PathToBiffurcation(g, path, radius) ==
    LET last == path[Len(path)]
        pred == path[Len(path) - 1]
        onward == SelectSeq(neighbors(g, last), LAMBDA n : n # pred)
    IN  IF \/ Len(neighbors(g, last)) # 2
           \/ onward = <<>>
           \/ InSeq(onward[1], path)
           \/ (radius # NoRadius /\ length(g, path) * radius.den >= radius.num)
        THEN path
        ELSE CHOOSE r \in {PathToBiffurcation(g, p, radius) :
                              p \in {Append(path, onward[1])}} : TRUE

get_path_to_biffurcation(g, start, next, radius) ==
    PathToBiffurcation(g, <<start, next>>, radius)

\* the nodes on a shortest route from a to b, counted in edges, by breadth-first
\* search from a
RECURSIVE Hops(_, _, _, _)
Hops(g, reached, b, k) ==
    IF b \in reached \/ k > NumNodes THEN k
    ELSE Hops(g, reached \cup {m \in Nodes : \E n \in reached : Edge(n, m) \in g.edges},
              b, k + 1)

\* Util.distance(G, a, b): the nodes lie along roads of equal edge length; the
\* distance is that of the shortest route
distance(g, a, b) ==
    IF a = b THEN 0
    ELSE Hops(g, {a}, b, 0) * g.length[CHOOSE e \in g.edges : TRUE]

\* a Region: its id, the nodes and the edges it owns in the order they were
\* added, and for a Crossroad its branches
Region(id) == [id |-> id, nodes |-> <<>>, edges |-> <<>>, branches |-> <<>>]

\* the growing region with the classification of the graph's nodes and edges
RegionState(rg, nr, er) == [region |-> rg, nodeRegion |-> nr, edgeRegion |-> er]

\* Region.add_node(n)
add_node(st, n) ==
    [st EXCEPT !.region.nodes = IF InSeq(n, @) THEN @ ELSE Append(@, n),
               !.nodeRegion[n] = st.region.id]

\* Region.add_edge((a, b))
add_edge(st, a, b) ==
    [st EXCEPT !.region.edges = IF InSeq(Edge(a, b), @) THEN @ ELSE Append(@, Edge(a, b)),
               !.edgeRegion[Edge(a, b)] = st.region.id]

\* Region.add_path(path): the path's edges and nodes join the region
RECURSIVE add_path_from(_, _, _)
add_path_from(st, path, i) ==
    IF i > Len(path) THEN st
    ELSE CHOOSE r \in {add_path_from(t, path, i + 1) :
                          t \in {add_node(IF i > 1 THEN add_edge(st, path[i - 1], path[i])
                                          ELSE st, path[i])}} : TRUE

add_path(st, path) == add_path_from(st, path, 1)

\* Region.has_edge((a, b))
has_edge(rg, a, b) == InSeq(Edge(a, b), rg.edges)

\* Region.is_boundary_node(n): n has an edge that is not the region's
is_boundary_node(g, rg, n) ==
    \E i \in DOMAIN neighbors(g, n) : ~has_edge(rg, neighbors(g, n)[i], n)

\* Region.unknown_region_node(n) and Region.unknown_region_node_in_graph(G, n)
unknown_region_node(nr, n) == nr[n] = -1

\* Region.unknown_region_edge((a, b))
unknown_region_edge(er, a, b) == er[Edge(a, b)] = -1

\* Region.clear_region(): the region releases its nodes and edges
clear_region(st) ==
    [region |-> [st.region EXCEPT !.nodes = <<>>, !.edges = <<>>],
     nodeRegion |-> [n \in DOMAIN st.nodeRegion |->
                        IF InSeq(n, st.region.nodes) THEN -1 ELSE st.nodeRegion[n]],
     edgeRegion |-> [e \in DOMAIN st.edgeRegion |->
                        IF InSeq(e, st.region.edges) THEN -1 ELSE st.edgeRegion[e]]]

(***************************************************************************)
(* crossroad.py: class Crossroad.                                          *)
(***************************************************************************)
\* lines 15-25
max_distance_boundary_polyline ==
    [motorway |-> 100, trunk |-> 100, primary |-> 80, secondary |-> 80,
     tertiary |-> 50, unclassified |-> 30, residential |-> 30,
     living_street |-> 25, service |-> 25, default |-> 25]

\* lines 27-37
min_distance_boundary_polyline ==
    [motorway |-> 100, trunk |-> 100, primary |-> 50, secondary |-> 30,
     tertiary |-> 25, unclassified |-> 16, residential |-> 16,
     living_street |-> 16, service |-> 12, default |-> 12]

\* "s in table" and "table[s]" for a Python string s
InTable(table, str) == str.links = 0 /\ str.base \in DOMAIN table

Lookup(table, str) == table[str.base]

\* the Python values get_highway_classification is handed: the tuple (a, b) of
\* two node ids, and the attribute dict G[a][b][0] of an edge
PyTuple(a, b) == [type |-> "tuple", items |-> <<a, b>>]

PyEdgeData(g, a, b) == [type |-> "dict", highway |-> g.highway[Edge(a, b)]]

\* "highway" in x: a key of the dict; an item of the tuple, whose items are
\* node ids and none of them a string
HasHighway(x) == IF x.type = "dict" THEN x.highway # Absent ELSE FALSE

\* lines 43-44
getCenter(rg) == rg.nodes[1]

\* lines 180-189
get_highway_classification(g, edge) ==
    IF ~HasHighway(edge) THEN Str("default", 0)
    ELSE LET highway == edge.highway
             highway_link == Str(highway.base, highway.links + 1)
             highway2 == IF InTable(max_distance_boundary_polyline, highway_link)
                         THEN highway_link ELSE highway
         IN  IF ~InTable(max_distance_boundary_polyline, highway2)
             THEN Str("default", 0) ELSE highway2

\* lines 158-164: the loop over the center's neighbours, from the i-th on
RECURSIVE MaxClassificationLoop(_, _, _, _, _)
MaxClassificationLoop(g, center, path, i, result) ==
    IF i > Len(neighbors(g, center)) THEN result
    ELSE LET nb == neighbors(g, center)[i]
             c == get_highway_classification(g, PyTuple(center, nb))
         IN  CHOOSE r \in {MaxClassificationLoop(g, center, path, i + 1, res) :
                 res \in {IF nb # path[2]
                             /\ Lookup(max_distance_boundary_polyline, c)
                                    > Lookup(max_distance_boundary_polyline, result)
                          THEN c ELSE result}} : TRUE

\* lines 152-165; the caller's region has its center
get_max_highway_classification_other(g, rg, path) ==
    MaxClassificationLoop(g, getCenter(rg), path, 1, Str("default", 0))

\* lines 171-176: the loop over the point's neighbours, from the i-th on
RECURSIVE ClosestBiffurcationLoop(_, _, _, _)
ClosestBiffurcationLoop(g, point, i, best) ==
    IF i > Len(neighbors(g, point)) THEN best.result
    ELSE LET path == get_path_to_biffurcation(g, point, neighbors(g, point)[i], NoRadius)
             l == length(g, path)
         IN  CHOOSE r \in {ClosestBiffurcationLoop(g, point, i + 1, b) :
                 b \in {IF best.length < 0 \/ l < best.length
                        THEN [result |-> path[Len(path)], length |-> l]
                        ELSE best}} : TRUE

\* lines 168-178
get_closest_possible_biffurcation(g, point) ==
    ClosestBiffurcationLoop(g, point, 1, [result |-> -1, length |-> -1])

\* is_inner_path_by_osmdata with line 193 as '"junction" in self.G[p1][p2]': the
\* keys of G[p1][p2] are the keys of the parallel edges, never "junction"
is_inner_path_by_osmdata_EdgeKeys(g, path) ==
    \A i \in 1..(Len(path) - 1) : FALSE

\* lines 191-195
is_inner_path_by_osmdata(g, path) ==
    \A i \in 1..(Len(path) - 1) : Edge(path[i], path[i + 1]) \in g.junction

\* lines 197-221; the result is Python's True, False or None
is_correct_inner_path(g, rg, path) ==
    IF Len(path) < 2 THEN "False"
    ELSE IF path[1] = path[Len(path)] THEN "False"
    ELSE IF is_inner_path_by_osmdata(g, path) THEN "True"
    ELSE LET first == path[1]
             last == path[Len(path)]
         IN  IF is_weakly_in_crossroad(g, first) /\ is_weakly_boundary(g, last)
             THEN LET d == length(g, path)
                      r == IF Len(neighbors(g, first)) > 4 THEN 2 ELSE 1
                      highway == get_max_highway_classification_other(g, rg, path)
                  IN  IF \/ d < Lookup(min_distance_boundary_polyline, highway) * r
                         \/ /\ d < Lookup(max_distance_boundary_polyline, highway) * r
                            /\ get_closest_possible_biffurcation(g, last) = first
                      THEN "True" ELSE "False"
             ELSE "None"

\* lines 265-274
is_middle_path_node(g, node, strong) ==
    IF Len(neighbors(g, node)) # 2 THEN FALSE
    ELSE IF strong
         THEN ~(is_strong_boundary(g, node) \/ is_strong_in_crossroad(g, node))
         ELSE ~(is_weakly_boundary(g, node) \/ is_weakly_in_crossroad(g, node))

\* lines 276-281
get_next_node_along_polyline(g, current, pred) ==
    LET others == SelectSeq(neighbors(g, current), LAMBDA n : n # pred)
    IN  IF others = <<>> THEN None ELSE others[1]

\* the while loops of lines 230-240 and 249-259: ok is false when the walk
\* could not be followed
RECURSIVE FollowPolyline(_, _, _, _)
FollowPolyline(g, nr, path, strong) ==
    IF ~is_middle_path_node(g, path[Len(path)], strong)
    THEN [path |-> path, ok |-> TRUE]
    ELSE LET next == get_next_node_along_polyline(g, path[Len(path)], path[Len(path) - 1])
         IN  IF next = None THEN [path |-> path, ok |-> FALSE]
             ELSE IF ~unknown_region_node(nr, next)
                  THEN [path |-> Append(path, next), ok |-> TRUE]
                  ELSE CHOOSE r \in {FollowPolyline(g, nr, p, strong) :
                                        p \in {Append(path, next)}} : TRUE

\* lines 224-263
get_possible_paths(g, nr, n1, n2) ==
    LET weak == FollowPolyline(g, nr, <<n1, n2>>, FALSE)
    IN  IF ~weak.ok THEN <<>>
        ELSE IF ~is_middle_path_node(g, weak.path[Len(weak.path)], TRUE)
             THEN <<weak.path>>
             ELSE LET strong == FollowPolyline(g, nr, weak.path, TRUE)
                  IN  IF ~strong.ok THEN <<weak.path>>
                      ELSE <<weak.path, strong.path>>

\* lines 143-146: the candidates in the order tried, each with the answer of
\* is_correct_inner_path, up to the first that is committed
UpToFirstTrue(all) ==
    LET oks == {i \in DOMAIN all : all[i].verdict = "True"}
    IN  IF oks = {} THEN all
        ELSE SubSeq(all, 1, CHOOSE i \in oks : \A j \in oks : i <= j)

\* TriedPaths with line 143 as "for path in paths": the shortest candidate first
TriedPaths_WeakFirst(g, rg, paths) ==
    CHOOSE tried \in
        {UpToFirstTrue(all) :
            all \in {[i \in DOMAIN paths |->
                        [path |-> paths[i],
                         verdict |-> is_correct_inner_path(g, rg, paths[i])]]}} : TRUE

TriedPaths(g, rg, paths) ==
    CHOOSE tried \in
        {UpToFirstTrue(all) :
            all \in {[i \in DOMAIN paths |->
                        [path |-> paths[Len(paths) + 1 - i],
                         verdict |-> is_correct_inner_path(g, rg,
                                         paths[Len(paths) + 1 - i])]]}} : TRUE

\* lines 141-146 for one neighbour nb of n: the region after it, and what was done
CommittedPath(tried) ==
    IF tried # <<>> /\ tried[Len(tried)].verdict = "True"
    THEN tried[Len(tried)].path ELSE <<>>

PropagateDirection(g, st, n, nb) ==
    IF ~unknown_region_edge(st.edgeRegion, n, nb)
    THEN [st |-> st,
          dir |-> [nb |-> nb, unknown |-> FALSE, paths |-> <<>>, tried |-> <<>>,
                   committed |-> <<>>]]
    ELSE CHOOSE r \in
             {[st |-> IF d.committed # <<>> THEN add_path(st, d.committed) ELSE st,
               dir |-> d] :
                 d \in {[nb |-> nb, unknown |-> TRUE, paths |-> paths,
                         tried |-> TriedPaths(g, st.region, paths),
                         committed |-> CommittedPath(TriedPaths(g, st.region, paths))] :
                            paths \in {get_possible_paths(g, st.nodeRegion, n, nb)}}} : TRUE

\* lines 140-146: the loop over the neighbours of n, from the i-th on
RECURSIVE PropagateLoop(_, _, _, _, _)
PropagateLoop(g, st, n, i, dirs) ==
    IF i > Len(neighbors(g, n)) THEN [st |-> st, dirs |-> dirs]
    ELSE CHOOSE r \in {PropagateLoop(g, d.st, n, i + 1, Append(dirs, d.dir)) :
                          d \in {PropagateDirection(g, st, n, neighbors(g, n)[i])}} : TRUE

\* lines 134-146
propagate(g, st, n) == PropagateLoop(g, add_node(st, n), n, 1, <<>>)

\* the nodes of the region that are boundary nodes (lines 61 and 90)
borders(g, rg) == SelectSeq(rg.nodes, LAMBDA n : is_boundary_node(g, rg, n))

\* lines 65-69: the largest min distance among the classes of the center's edges
RECURSIVE RadiusLoop(_, _, _, _)
RadiusLoop(g, center, i, radius) ==
    IF i > Len(neighbors(g, center)) THEN radius
    ELSE LET c == get_highway_classification(g, PyTuple(center, neighbors(g, center)[i]))
             v == Lookup(min_distance_boundary_polyline, c)
         IN  RadiusLoop(g, center, i + 1, IF v > radius THEN v ELSE radius)

RECURSIVE SumDistances(_, _, _)
SumDistances(g, center, bs) ==
    IF bs = <<>> THEN 0
    ELSE distance(g, center, bs[1]) + SumDistances(g, center, Tail(bs))

\* lines 60-72: the radius is the fraction num / den
get_radius(g, rg) ==
    IF Len(borders(g, rg)) = 0
    THEN [num |-> RadiusLoop(g, getCenter(rg), 1, 0), den |-> 1]
    ELSE [num |-> SumDistances(g, getCenter(rg), borders(g, rg)),
          den |-> Len(borders(g, rg))]

\* lines 50-54: BranchDescription(angle, name) keeps what the angle and the name
\* are taken from: the bearing from the center to edge[1], and the edge
get_branch_description_from_edge(rg, a, b) ==
    [center |-> getCenter(rg), to |-> b, edge |-> Edge(a, b)]

\* lines 56-58
get_branches_description_from_node(g, rg, border) ==
    LET edges == SelectSeq(neighbors(g, border), LAMBDA nb : has_edge(rg, nb, border))
    IN  [i \in DOMAIN edges |-> get_branch_description_from_edge(rg, edges[i], border)]

\* lines 75-82
get_open_paths(g, rg, point, radius) ==
    LET nbs == SelectSeq(neighbors(g, point), LAMBDA nb : ~has_edge(rg, nb, point))
    IN  [i \in DOMAIN nbs |-> get_path_to_biffurcation(g, point, nbs[i], radius)]

\* lines 92-100: what one border node adds to self.branches
BranchesOfBorder(g, rg, b, radius) ==
    IF b # getCenter(rg) THEN get_branches_description_from_node(g, rg, b)
    ELSE LET open_branches == get_open_paths(g, rg, b, radius)
         IN  [i \in DOMAIN open_branches |->
                 get_branch_description_from_edge(rg,
                     open_branches[i][Len(open_branches[i]) - 1],
                     open_branches[i][Len(open_branches[i])])]

RECURSIVE BranchesLoop(_, _, _, _)
BranchesLoop(g, rg, bs, radius) ==
    IF bs = <<>> THEN <<>>
    ELSE BranchesOfBorder(g, rg, bs[1], radius) \o BranchesLoop(g, rg, Tail(bs), radius)

\* lines 84-100: the value of self.branches
build_branches_description(g, rg) ==
    CHOOSE branches \in
        {BranchesLoop(g, rg, bs, radius) :
            bs \in {borders(g, rg)}, radius \in {get_radius(g, rg)}} : TRUE

\* lines 12-41: Crossroad(G, node) with the next region id; the region state
\* after it and what propagate did
Crossroad(g, nr, er, id, node) ==
    CHOOSE c \in
        {[st |-> [grown.st EXCEPT
                     !.region.branches = build_branches_description(g, grown.st.region)],
          dirs |-> grown.dirs] :
            grown \in {propagate(g, RegionState(Region(id), nr, er), node)}} : TRUE

\* is_straight_crossing with line 118 as ">= 2"
is_straight_crossing_TwoIsMany(g, rg) ==
    \A i \in DOMAIN rg.nodes : ~(Len(neighbors(g, rg.nodes[i])) >= 2)

\* lines 116-121
is_straight_crossing(g, rg) ==
    \A i \in DOMAIN rg.nodes : ~(Len(neighbors(g, rg.nodes[i])) > 2)

\* lines 124-132
is_reliable_crossroad_node(g, n) ==
    \/ is_weakly_in_crossroad(g, n)
    \/ \E i \in DOMAIN neighbors(g, n) : is_weakly_in_crossroad_edge(g, neighbors(g, n)[i], n)

(***************************************************************************)
(* Crossroad.build_crossroads(G) (lines 103-114), one node of G.nodes at a *)
(* step.  G.nodes is scanned in the order 1..NumNodes.                     *)
(***************************************************************************)
NoGrow == [seed |-> None, id |-> -1, dirs |-> <<>>, region |-> Region(-1),
           straight |-> FALSE]

InitBuild ==
    /\ \E es \in Graphs :
       \E marks \in [Nodes -> Marks] :
       \E l \in EdgeLengths :
       \E h \in HighwayTags :
       \E js \in {{}, es, es \ {FirstEdge(es)}} :
       \E cs \in {{}, {FirstEdge(es)}} :
          /\ G = Graph(es, marks, l, h, js, cs)
          /\ edgeRegion = [e \in es |-> -1]
    /\ nodeRegion = [n \in Nodes |-> -1]
    /\ id_region = 0
    /\ scan = 1
    /\ built = <<>>
    /\ returned = FALSE
    /\ lastGrow = NoGrow
    /\ IdleConn
    /\ IdleClusters

\* lines 106-107 are not both true of the node: nothing is grown from it
ScanSkip ==
    /\ ~returned
    /\ scan <= NumNodes
    /\ ~(unknown_region_node(nodeRegion, scan) /\ is_reliable_crossroad_node(G, scan))
    /\ scan' = scan + 1
    /\ lastGrow' = NoGrow
    /\ UNCHANGED <<G, nodeRegion, edgeRegion, id_region, built, returned>>
    /\ UNCHANGED <<connVars, clusterVars>>

\* lines 108-113: a crossroad is grown from the node and kept
ScanKeep ==
    /\ ~returned
    /\ scan <= NumNodes
    /\ unknown_region_node(nodeRegion, scan)
    /\ is_reliable_crossroad_node(G, scan)
    /\ \E c \in {Crossroad(G, nodeRegion, edgeRegion, id_region, scan)} :
          /\ ~is_straight_crossing(G, c.st.region)
          /\ built' = Append(built, c.st.region)
          /\ nodeRegion' = c.st.nodeRegion
          /\ edgeRegion' = c.st.edgeRegion
          /\ lastGrow' = [seed |-> scan, id |-> id_region, dirs |-> c.dirs,
                          region |-> c.st.region, straight |-> FALSE]
    /\ id_region' = id_region + 1
    /\ scan' = scan + 1
    /\ UNCHANGED <<G, returned>>
    /\ UNCHANGED <<connVars, clusterVars>>

\* lines 108-111: a crossroad is grown from the node, found to be a straight
\* crossing, and cleared
ScanDiscard ==
    /\ ~returned
    /\ scan <= NumNodes
    /\ unknown_region_node(nodeRegion, scan)
    /\ is_reliable_crossroad_node(G, scan)
    /\ \E c \in {Crossroad(G, nodeRegion, edgeRegion, id_region, scan)} :
          /\ is_straight_crossing(G, c.st.region)
          /\ \E cleared \in {clear_region(c.st)} :
                /\ nodeRegion' = cleared.nodeRegion
                /\ edgeRegion' = cleared.edgeRegion
          /\ lastGrow' = [seed |-> scan, id |-> id_region, dirs |-> c.dirs,
                          region |-> c.st.region, straight |-> TRUE]
    /\ id_region' = id_region + 1
    /\ scan' = scan + 1
    /\ UNCHANGED <<G, built, returned>>
    /\ UNCHANGED <<connVars, clusterVars>>

\* line 114
Return ==
    /\ ~returned
    /\ scan = NumNodes + 1
    /\ returned' = TRUE
    /\ UNCHANGED <<G, nodeRegion, edgeRegion, id_region, scan, built, lastGrow>>
    /\ UNCHANGED <<connVars, clusterVars>>

NextBuild == ScanSkip \/ ScanKeep \/ ScanDiscard \/ Return

SpecBuild == InitBuild /\ [][NextBuild]_vars

(***************************************************************************)
(* crossroad.py: Crossroad.get_clusters (lines 284-337).                   *)
(*                                                                         *)
(* The crossroads handed to get_clusters are those build_crossroads        *)
(* returned, in the order of their ids.  Of a crossroad, get_clusters      *)
(* reads its id, its center, its radius and its branches.  The centers lie *)
(* along a west-east road, 3 apart; a branch is its angle (0: north,       *)
(* 90: east) and its road name.  Util.distance, Util.bearing and           *)
(* BranchDescription are not part of the sources at hand.                  *)
(***************************************************************************)
\* crossroads handed to get_clusters
NumClustered == 3

Positions == {3 * k : k \in 0..NumClustered}

Radii == {1, 2}

BranchDescription(angle, name) == [angle |-> angle, name |-> name]

BranchChoices == {BranchDescription(a, n) : a \in {0, 90}, n \in {"a", "b"}}

ClusteredCrossroad(id, pos, radius, branch) ==
    [id |-> id, center |-> pos, radius |-> radius, branches |-> <<branch>>]

\* Util.distance(G, a, b) for two centers
center_distance(a, b) == Abs(a - b)

\* Util.bearing(G, a, b) for two centers
bearing(a, b) == IF b > a THEN 90 ELSE IF b < a THEN 270 ELSE 0

\* BranchDescription.is_similar: the same road name
is_similar(b1, b2) == b1.name = b2.name

\* BranchDescription.is_orthogonal: at a right angle to the reference angle
is_orthogonal(b, angle) == (b.angle - angle) % 180 = 90

\* lines 284-294
get_crossroads_in_neighborhood(self, crs) ==
    SelectSeq(crs, LAMBDA c :
        c.id # self.id /\ center_distance(self.center, c.center) < self.radius * 4)

\* lines 296-305
in_same_cluster(self, crossroad) ==
    LET angle == bearing(self.center, crossroad.center)
    IN  \E i \in DOMAIN self.branches : \E j \in DOMAIN crossroad.branches :
            /\ is_similar(self.branches[i], crossroad.branches[j])
            /\ is_orthogonal(self.branches[i], angle)

\* line 326: [c for c in result if cr in c]
ClustersOf(result, cr) == SelectSeq(result, LAMBDA c : InSeq(cr, c))

\* line 332 without its filter: the absorbed cluster stays in result
WithoutClustersOf_KeepAll(result, cr) == result

\* line 332: [c for c in result if not cr in c]
WithoutClustersOf(result, cr) == SelectSeq(result, LAMBDA c : ~InSeq(cr, c))

InitClusters ==
    /\ \E pos \in {f \in [1..NumClustered -> Positions] :
                       \A i, j \in 1..NumClustered : i # j => f[i] # f[j]} :
       \E rad \in [1..NumClustered -> Radii] :
       \E br \in [1..NumClustered -> BranchChoices] :
          cl_crossroads = [i \in 1..NumClustered |->
                              ClusteredCrossroad(i, pos[i], rad[i], br[i])]
    /\ cl_pc = "outer"
    /\ cl_head = 1
    /\ cl_visited = <<>>
    /\ cl_result = <<>>
    /\ cl_cluster = <<>>
    /\ cl_nbs = <<>>
    /\ cl_k = 0
    /\ cl_matched = {}
    /\ cl_last = "none"
    /\ IdleConn
    /\ IdleBuild

\* line 313 is false: the crossroad was visited
HeadSkip ==
    /\ cl_pc = "outer"
    /\ cl_head <= Len(cl_crossroads)
    /\ InSeq(cl_crossroads[cl_head].id, cl_visited)
    /\ cl_head' = cl_head + 1
    /\ cl_last' = "skip"
    /\ UNCHANGED <<cl_crossroads, cl_pc, cl_visited, cl_result, cl_cluster, cl_nbs,
                   cl_k, cl_matched>>
    /\ UNCHANGED <<connVars, buildVars>>

\* lines 313-318: the crossroad heads a new cluster
HeadStart ==
    /\ cl_pc = "outer"
    /\ cl_head <= Len(cl_crossroads)
    /\ ~InSeq(cl_crossroads[cl_head].id, cl_visited)
    /\ cl_visited' = Append(cl_visited, cl_crossroads[cl_head].id)
    /\ cl_cluster' = <<cl_crossroads[cl_head].id>>
    /\ cl_nbs' = get_crossroads_in_neighborhood(cl_crossroads[cl_head], cl_crossroads)
    /\ cl_k' = 1
    /\ cl_pc' = "inner"
    /\ cl_last' = "head"
    /\ UNCHANGED <<cl_crossroads, cl_head, cl_result, cl_matched>>
    /\ UNCHANGED <<connVars, buildVars>>

\* line 320 is false for cr
NbNoMatch ==
    /\ cl_pc = "inner"
    /\ cl_k <= Len(cl_nbs)
    /\ ~in_same_cluster(cl_crossroads[cl_head], cl_nbs[cl_k])
    /\ cl_k' = cl_k + 1
    /\ cl_last' = "nomatch"
    /\ UNCHANGED <<cl_crossroads, cl_pc, cl_head, cl_visited, cl_result, cl_cluster,
                   cl_nbs, cl_matched>>
    /\ UNCHANGED <<connVars, buildVars>>

\* lines 321-323: cr was not visited and joins the cluster
NbAdd ==
    /\ cl_pc = "inner"
    /\ cl_k <= Len(cl_nbs)
    /\ in_same_cluster(cl_crossroads[cl_head], cl_nbs[cl_k])
    /\ ~InSeq(cl_nbs[cl_k].id, cl_visited)
    /\ cl_visited' = Append(cl_visited, cl_nbs[cl_k].id)
    /\ cl_cluster' = Append(cl_cluster, cl_nbs[cl_k].id)
    /\ cl_matched' = cl_matched \cup {<<cl_crossroads[cl_head].id, cl_nbs[cl_k].id>>}
    /\ cl_k' = cl_k + 1
    /\ cl_last' = "add"
    /\ UNCHANGED <<cl_crossroads, cl_pc, cl_head, cl_result, cl_nbs>>
    /\ UNCHANGED <<connVars, buildVars>>

\* lines 324-332: cr was visited and one cluster of result holds it: the
\* cluster is absorbed
NbMerge ==
    /\ cl_pc = "inner"
    /\ cl_k <= Len(cl_nbs)
    /\ in_same_cluster(cl_crossroads[cl_head], cl_nbs[cl_k])
    /\ InSeq(cl_nbs[cl_k].id, cl_visited)
    /\ \E other_cluster \in {ClustersOf(cl_result, cl_nbs[cl_k].id)} :
          /\ Len(other_cluster) = 1
          /\ cl_cluster' = cl_cluster \o other_cluster[1]
    /\ cl_result' = WithoutClustersOf(cl_result, cl_nbs[cl_k].id)
    /\ cl_matched' = cl_matched \cup {<<cl_crossroads[cl_head].id, cl_nbs[cl_k].id>>}
    /\ cl_k' = cl_k + 1
    /\ cl_last' = "merge"
    /\ UNCHANGED <<cl_crossroads, cl_pc, cl_head, cl_visited, cl_nbs>>
    /\ UNCHANGED <<connVars, buildVars>>

\* lines 324-328: cr was visited and not exactly one cluster of result holds
\* it: "Error while merging two clusters" is printed
NbError ==
    /\ cl_pc = "inner"
    /\ cl_k <= Len(cl_nbs)
    /\ in_same_cluster(cl_crossroads[cl_head], cl_nbs[cl_k])
    /\ InSeq(cl_nbs[cl_k].id, cl_visited)
    /\ Len(ClustersOf(cl_result, cl_nbs[cl_k].id)) # 1
    /\ cl_matched' = cl_matched \cup {<<cl_crossroads[cl_head].id, cl_nbs[cl_k].id>>}
    /\ cl_k' = cl_k + 1
    /\ cl_last' = "error"
    /\ UNCHANGED <<cl_crossroads, cl_pc, cl_head, cl_visited, cl_result, cl_cluster,
                   cl_nbs>>
    /\ UNCHANGED <<connVars, buildVars>>

\* lines 334-335: the inner loop is over
HeadEnd ==
    /\ cl_pc = "inner"
    /\ cl_k > Len(cl_nbs)
    /\ cl_result' = IF Len(cl_cluster) > 1 THEN Append(cl_result, cl_cluster)
                    ELSE cl_result
    /\ cl_cluster' = <<>>
    /\ cl_nbs' = <<>>
    /\ cl_k' = 0
    /\ cl_head' = cl_head + 1
    /\ cl_pc' = "outer"
    /\ cl_last' = "end"
    /\ UNCHANGED <<cl_crossroads, cl_visited, cl_matched>>
    /\ UNCHANGED <<connVars, buildVars>>

\* line 337
ReturnClusters ==
    /\ cl_pc = "outer"
    /\ cl_head > Len(cl_crossroads)
    /\ cl_pc' = "done"
    /\ cl_last' = "return"
    /\ UNCHANGED <<cl_crossroads, cl_head, cl_visited, cl_result, cl_cluster, cl_nbs,
                   cl_k, cl_matched>>
    /\ UNCHANGED <<connVars, buildVars>>

NextClusters ==
    HeadSkip \/ HeadStart \/ NbNoMatch \/ NbAdd \/ NbMerge \/ NbError \/ HeadEnd
        \/ ReturnClusters

SpecClusters == InitClusters /\ [][NextClusters]_vars

(***************************************************************************)
(* What the claims about CrossroadConnections speak of.                    *)
(***************************************************************************)
Typology(rid) == get_typology(crossroads, links, rid)

\* regions r1 and r2 have a node in common
SharesNode(r1, r2) == Range(regions[r1].nodes) \cap Range(regions[r2].nodes) # {}

\* the regions other than A and B that touch both
CommonRegions(A, B) ==
    {r \in RegionIds \ {A, B} : SharesNode(r, A) /\ SharesNode(r, B)}

\* the length of the path inside region L between A and B
PathLength(L, A, B) == get_path_in_link(regions, regionsByNode, L, A, B).distance

\* max(max_branch_width(A), max_branch_width(B)) * connection_threshold
ConnectionBound(A, B) == MaxOf(regions[A].width, regions[B].width) * connection_threshold

\* the connections between A and B in a list of connections
Between(cs, A, B) ==
    SelectSeq(cs, LAMBDA c : (c.a = A /\ c.b = B) \/ (c.a = B /\ c.b = A))

CrossroadPairs ==
    {<<A, B>> \in Range(crossroads) \X Range(crossroads) : regions[A].id < regions[B].id}

\* C2 as stated: two crossroads joined by exactly one link are reported by
\* get_pairs() as exactly one connection when the link's path is below the bound,
\* and as none when it is not.
JoinedByOneLink(A, B) ==
    Cardinality({L \in CommonRegions(A, B) : is_link(regions[L])}) = 1

TheLink(A, B) == CHOOSE L \in CommonRegions(A, B) : is_link(regions[L])

C2_GetPairsReportsSingleLink ==
    (phase = "built" /\ lastCall.op = "get_pairs") =>
        \A p \in CrossroadPairs :
            JoinedByOneLink(p[1], p[2]) =>
                IF PathLength(TheLink(p[1], p[2]), p[1], p[2]) < ConnectionBound(p[1], p[2])
                THEN Len(Between(lastCall.result, p[1], p[2])) = 1
                ELSE Len(Between(lastCall.result, p[1], p[2])) = 0

\* C2 amended: for two crossroads whose only common neighbouring region is one
\* link, self.connected_crossroads holds exactly one connection between them,
\* with that link's (path, link) as its only evidence, when the link's path is
\* below the bound, and none when it is not; get_pairs(), which keeps the
\* connections with more than one evidence entry, reports none in either case.
OnlyOneLinkBetween(A, B) ==
    /\ Cardinality(CommonRegions(A, B)) = 1
    /\ \A L \in CommonRegions(A, B) : is_link(regions[L])

C2_SingleLinkStoredNotPaired ==
    phase = "built" =>
        \A p \in CrossroadPairs :
            OnlyOneLinkBetween(p[1], p[2]) =>
                LET L == TheLink(p[1], p[2])
                    pd == get_path_in_link(regions, regionsByNode, L, p[1], p[2])
                    stored == Between(connected_crossroads, p[1], p[2])
                IN  /\ IF pd.distance < ConnectionBound(p[1], p[2])
                       THEN stored = <<[a |-> p[1], b |-> p[2],
                                        ev |-> <<[path |-> pd.path, link |-> L]>>]>>
                       ELSE stored = <<>>
                    /\ lastCall.op = "get_pairs" =>
                           Between(lastCall.result, p[1], p[2]) = <<>>

\* C2's case: get_pairs() was called on an object with a single short link
\* between two crossroads, and with a single long link between two others
C2_Witness ==
    /\ phase = "built"
    /\ lastCall.op = "get_pairs"
    /\ \E p \in CrossroadPairs :
          /\ OnlyOneLinkBetween(p[1], p[2])
          /\ PathLength(TheLink(p[1], p[2]), p[1], p[2]) < ConnectionBound(p[1], p[2])
    /\ \E p \in CrossroadPairs :
          /\ OnlyOneLinkBetween(p[1], p[2])
          /\ PathLength(TheLink(p[1], p[2]), p[1], p[2]) >= ConnectionBound(p[1], p[2])

\* C3: every stored connection (A, B, evidence) has id(A) < id(B), and no
\* unordered pair is stored twice, in either order.
C3_OrderedAndUnique ==
    phase = "built" =>
        /\ \A i \in DOMAIN connected_crossroads :
              regions[connected_crossroads[i].a].id < regions[connected_crossroads[i].b].id
        /\ \A i, j \in DOMAIN connected_crossroads :
              i # j => {connected_crossroads[i].a, connected_crossroads[i].b}
                           # {connected_crossroads[j].a, connected_crossroads[j].b}

\* C3's case: two crossroads are linked twice, and the two are merged
C3_Witness ==
    /\ phase = "built"
    /\ \E i \in DOMAIN connected_crossroads : Len(connected_crossroads[i].ev) >= 2
    /\ Len(connected_crossroads) >= 2

\* C7: get_cycles never returns two cycles over the same set of crossroads; of
\* the cycles found over one set, the first found is the one returned.
C7_CyclesUniqueFirstKept ==
    lastCall.op = "get_cycles" =>
        /\ \A i, j \in DOMAIN lastCall.result :
              i # j => CycleElems(lastCall.result[i]) # CycleElems(lastCall.result[j])
        /\ \A k \in DOMAIN lastCall.found :
              \E i \in DOMAIN lastCall.result :
                 /\ CycleElems(lastCall.result[i]) = CycleElems(lastCall.found[k])
                 /\ lastCall.result[i] =
                       lastCall.found[CHOOSE m \in DOMAIN lastCall.found :
                           /\ CycleElems(lastCall.found[m]) = CycleElems(lastCall.found[k])
                           /\ \A n \in 1..(m - 1) :
                                 CycleElems(lastCall.found[n]) # CycleElems(lastCall.found[k])]
        /\ \A i \in DOMAIN lastCall.result : InSeq(lastCall.result[i], lastCall.found)

\* C7's case: the same set of crossroads was found more than once, and another
\* set as well
C7_Witness ==
    /\ lastCall.op = "get_cycles"
    /\ Len(lastCall.found) > Len(lastCall.result)
    /\ Len(lastCall.result) >= 1

\* C8: three crossroads joined pairwise by three distinct links, each pair a
\* stored connection: get_cycles(max_length) with max_length >= 3 returns exactly
\* one cycle, and it visits exactly the three crossroads.
Triangle(A, B, C) ==
    /\ {A, B, C} \subseteq Range(crossroads)
    /\ Cardinality({A, B, C}) = 3
    /\ Len(connected_crossroads) = 3
    /\ {{connected_crossroads[i].a, connected_crossroads[i].b} :
           i \in DOMAIN connected_crossroads} = {{A, B}, {A, C}, {B, C}}
    /\ \A i \in DOMAIN connected_crossroads : Len(connected_crossroads[i].ev) = 1
    /\ Cardinality({connected_crossroads[i].ev[1].link :
                       i \in DOMAIN connected_crossroads}) = 3

C8_TriangleOneCycle ==
    (lastCall.op = "get_cycles" /\ lastCall.max_length >= 3) =>
        \A A, B, C \in Range(crossroads) :
            Triangle(A, B, C) =>
                /\ Len(lastCall.result) = 1
                /\ CycleElems(lastCall.result[1]) = {A, B, C}

\* C8's case: get_cycles(3) was called on a triangle
C8_Witness ==
    /\ lastCall.op = "get_cycles"
    /\ lastCall.max_length = 3
    /\ \E A, B, C \in Range(crossroads) : Triangle(A, B, C)

\* C9 as stated: a connection for crossroads A, B is stored if and only if some
\* link adjacent to both has a path between them below the bound, and its
\* evidence holds exactly one entry for each such link and none for another.
ConnectingLinks(A, B) ==
    {L \in CommonRegions(A, B) :
        is_link(regions[L]) /\ PathLength(L, A, B) < ConnectionBound(A, B)}

C9_ConnectionIffShortLink ==
    phase = "built" =>
        \A p \in CrossroadPairs :
            LET stored == Between(connected_crossroads, p[1], p[2])
            IN  /\ Len(stored) >= 1 <=> ConnectingLinks(p[1], p[2]) # {}
                /\ \A i \in DOMAIN stored :
                      /\ {stored[i].ev[j].link : j \in DOMAIN stored[i].ev}
                            = ConnectingLinks(p[1], p[2])
                      /\ Len(stored[i].ev) = Cardinality(ConnectingLinks(p[1], p[2]))

\* C10 as stated: what is recorded as adjacent to a crossroad is a link, what is
\* recorded as adjacent to a link is a crossroad, two regions of one typology are
\* never adjacent, and adjacency is symmetric, with the same shared nodes.
C10_AdjacencyCrossroadLinkOnly ==
    phase = "built" =>
        \A i \in DOMAIN adjacencies : \A j \in DOMAIN adjacencies[i].val :
            LET r1 == adjacencies[i].key
                r2 == adjacencies[i].val[j].key
            IN  /\ Typology(r1) = typology_crossroad => Typology(r2) = typology_link
                /\ Typology(r1) = typology_link => Typology(r2) = typology_crossroad
                /\ Typology(r1) # Typology(r2)
                /\ DictHas(adjacencies, r2)
                /\ DictHas(DictGet(adjacencies, r2), r1)
                /\ DictGet(DictGet(adjacencies, r2), r1) = adjacencies[i].val[j].val

\* the links a step of a cycle goes through
StepLinks(step) == {step.ev[k].link : k \in DOMAIN step.ev}

\* C11 as stated: every cycle returned by get_cycles(max_length) starts and ends
\* at the same crossroad, no other crossroad occurs in it more than once, no link
\* is used in more than one of its steps, and it has at most max_length steps.
C11_CyclesAreSimple ==
    lastCall.op = "get_cycles" =>
        \A n \in DOMAIN lastCall.result :
            LET c == lastCall.result[n]
            IN  /\ Len(c) >= 2
                /\ c[1].cr = c[Len(c)].cr
                /\ \A i, j \in 1..(Len(c) - 1) : i # j => c[i].cr # c[j].cr
                /\ \A i, j \in 2..Len(c) : i # j => StepLinks(c[i]) \cap StepLinks(c[j]) = {}
                /\ Len(c) - 1 <= lastCall.max_length

(***************************************************************************)
(* What the claims about Crossroad speak of.                               *)
(***************************************************************************)
\* the candidate paths is_correct_inner_path was asked about by the last
\* Crossroad(G, n), each with the answer
Asked == UNION {Range(lastGrow.dirs[i].tried) : i \in DOMAIN lastGrow.dirs}

\* every edge of the path carries the junction marker
AllJunction(path) ==
    \A i \in 1..(Len(path) - 1) : Edge(path[i], path[i + 1]) \in G.junction

Degree(n) == Cardinality({m \in Nodes : Edge(n, m) \in G.edges})

\* every member node of the region has degree <= 2
AllDegreeAtMostTwo(rg) == \A n \in Range(rg.nodes) : Degree(n) <= 2

\* C1 as stated: any two distinct crossroads of the returned collection have
\* disjoint member-node sets.
C1_NoOverlap ==
    returned =>
        \A i, j \in DOMAIN built :
            i # j => Range(built[i].nodes) \cap Range(built[j].nodes) = {}

\* C4 as stated: every candidate path whose edges all carry the junction marker
\* is accepted by is_correct_inner_path, whatever its length and the marks of
\* its end nodes.
C4_JunctionPathAccepted ==
    \A t \in Asked : AllJunction(t.path) => t.verdict = "True"

\* C4 amended: every candidate path of at least two nodes whose last node is not
\* its first and whose edges all carry the junction marker is accepted by
\* is_correct_inner_path, whatever its length and the marks of its end nodes; a
\* candidate that comes back to its first node is rejected even then.
C4_OpenJunctionPathAccepted ==
    \A t \in Asked :
        AllJunction(t.path) =>
            IF Len(t.path) >= 2 /\ t.path[1] # t.path[Len(t.path)]
            THEN t.verdict = "True"
            ELSE t.verdict = "False"

\* C4's case: a junction path longer than every maximal distance, from a node
\* that is not marked in a crossroad to one that is not marked boundary, was
\* asked about, and in another run a junction path that is a loop
C4_Witness ==
    \E t \in Asked :
        /\ AllJunction(t.path)
        /\ t.path[1] # t.path[Len(t.path)]
        /\ length(G, t.path) >= 28
        /\ ~is_weakly_in_crossroad(G, t.path[1])
        /\ ~is_weakly_boundary(G, t.path[Len(t.path)])
        /\ t.verdict = "True"

\* the class the claim expects for an edge's highway tag
ExpectedClassification(tag) ==
    IF tag = Absent THEN Str("default", 0)
    ELSE IF tag.links = 0 /\ tag.base \in DOMAIN max_distance_boundary_polyline THEN tag
    ELSE IF tag.links = 1 /\ tag.base \in DOMAIN max_distance_boundary_polyline
         THEN Str(tag.base, 0)
    ELSE Str("default", 0)

\* C5 as stated: for an edge (center, nb) at the center of a grown crossroad, the
\* call get_highway_classification((center, nb)) that get_radius and
\* get_max_highway_classification_other make returns the edge's tag when it is in
\* the table, the base class of a "_link" tag, and "default" otherwise.
C5_ClassificationOfCenterEdges ==
    lastGrow.seed # None =>
        \A i \in DOMAIN neighbors(G, lastGrow.seed) :
            get_highway_classification(G, PyTuple(lastGrow.seed, neighbors(G, lastGrow.seed)[i]))
                = ExpectedClassification(
                      G.highway[Edge(lastGrow.seed, neighbors(G, lastGrow.seed)[i])])

\* C6: no region of the collection has every member node of degree <= 2; a grown
\* region that is a straight crossing is cleared and not appended, any other is
\* appended; the kept regions are in the order their seeds were scanned.
C6_NoStraightCrossingKept ==
    /\ \A i \in DOMAIN built : ~AllDegreeAtMostTwo(built[i])
    /\ lastGrow.seed # None =>
          IF AllDegreeAtMostTwo(lastGrow.region)
          THEN /\ \A i \in DOMAIN built : built[i].id # lastGrow.id
               /\ \A n \in Nodes : nodeRegion[n] # lastGrow.id
               /\ \A e \in G.edges : edgeRegion[e] # lastGrow.id
          ELSE /\ built # <<>>
               /\ built[Len(built)] = lastGrow.region
    /\ \A i, j \in DOMAIN built : i < j => getCenter(built[i]) < getCenter(built[j])

\* C6's case: a grown region was just cleared as a straight crossing although it
\* had grown beyond its seed, and an earlier one is kept
C6_Witness ==
    /\ lastGrow.seed # None
    /\ lastGrow.straight
    /\ Len(lastGrow.region.nodes) >= 2
    /\ Len(built) >= 1

\* the edges of G at node b that are not part of the region, and those that are
ExternalEdgesAt(rg, b) ==
    {Edge(b, m) : m \in Range(neighbors(G, b))} \ Range(rg.edges)

InternalEdgesAt(rg, b) ==
    {Edge(b, m) : m \in Range(neighbors(G, b))} \cap Range(rg.edges)

\* the boundary nodes of the region other than its center
NonCenterBorders(rg) ==
    {b \in Range(rg.nodes) \ {rg.nodes[1]} : ExternalEdgesAt(rg, b) # {}}

\* the branches the region has for edge e at node b
BranchesFor(rg, b, e) ==
    {i \in DOMAIN rg.branches : rg.branches[i].to = b /\ rg.branches[i].edge = e}

\* C12 as stated: after build_branches_description, in a region whose center is
\* not a boundary node, each boundary node has exactly one branch per incident
\* edge that is not part of the region and none for its incident edges that are
\* part of the region, and the number of branches is the number of such
\* external edges at the boundary nodes.
C12_BranchPerExternalEdge ==
    (lastGrow.seed # None /\ ExternalEdgesAt(lastGrow.region, lastGrow.seed) = {}) =>
        LET rg == lastGrow.region
        IN  /\ \A b \in NonCenterBorders(rg) :
                   /\ \A e \in ExternalEdgesAt(rg, b) :
                          Cardinality(BranchesFor(rg, b, e)) = 1
                   /\ \A e \in InternalEdgesAt(rg, b) : BranchesFor(rg, b, e) = {}
            /\ Len(rg.branches) =
                   Cardinality(UNION {{<<b, e>> : e \in ExternalEdgesAt(rg, b)} :
                                         b \in NonCenterBorders(rg)})

\* path p passes the acceptance test of the crossroad grown last
Passes(p) == is_correct_inner_path(G, lastGrow.region, p) = "True"

\* p is q cut short
StrictPrefix(p, q) == Len(p) < Len(q) /\ SubSeq(q, 1, Len(p)) = p

\* the edges along a path
PathEdges(p) == {Edge(p[i], p[i + 1]) : i \in 1..(Len(p) - 1)}

\* C14: for each neighbour nb of the seed n whose edge was unclassified when
\* its turn came, get_possible_paths gave at most two candidates, both starting
\* with [n, nb], the second (strong) a strict extension of the first (weak), and
\* propagate committed the strong one if there is one and it passes
\* is_correct_inner_path, otherwise the weak one if it passes, otherwise
\* nothing; the region holds the seed and the committed paths, and nothing else.
C14_StrongThenWeak ==
    lastGrow.seed # None =>
        /\ \A i \in DOMAIN lastGrow.dirs :
               LET d == lastGrow.dirs[i]
               IN  IF d.unknown
                   THEN /\ Len(d.paths) <= 2
                        /\ \A k \in DOMAIN d.paths :
                               /\ Len(d.paths[k]) >= 2
                               /\ d.paths[k][1] = lastGrow.seed
                               /\ d.paths[k][2] = d.nb
                        /\ Len(d.paths) = 2 => StrictPrefix(d.paths[1], d.paths[2])
                        /\ d.committed =
                               IF Len(d.paths) = 2 /\ Passes(d.paths[2]) THEN d.paths[2]
                               ELSE IF Len(d.paths) >= 1 /\ Passes(d.paths[1])
                                    THEN d.paths[1]
                                    ELSE <<>>
                   ELSE d.committed = <<>>
        /\ Range(lastGrow.region.nodes) =
               {lastGrow.seed} \cup
                   UNION {Range(lastGrow.dirs[i].committed) : i \in DOMAIN lastGrow.dirs}
        /\ Range(lastGrow.region.edges) =
               UNION {PathEdges(lastGrow.dirs[i].committed) : i \in DOMAIN lastGrow.dirs}

\* C14's case: in one direction the strong candidate was refused and the weak
\* one committed, in another the strong candidate was committed
C14_Witness ==
    /\ lastGrow.seed # None
    /\ \E i \in DOMAIN lastGrow.dirs :
          /\ Len(lastGrow.dirs[i].paths) = 2
          /\ lastGrow.dirs[i].committed = lastGrow.dirs[i].paths[1]
    /\ \E i \in DOMAIN lastGrow.dirs :
          /\ Len(lastGrow.dirs[i].paths) = 2
          /\ lastGrow.dirs[i].committed = lastGrow.dirs[i].paths[2]

(***************************************************************************)
(* What the claims about get_clusters speak of.                            *)
(***************************************************************************)
\* the clusters there are at a point of get_clusters: those of result and the
\* one being built
ClustersNow == cl_result \o (IF cl_cluster # <<>> THEN <<cl_cluster>> ELSE <<>>)

\* C13 as stated: whenever crossroad c headed a cluster and in_same_cluster was
\* true for a crossroad cr of its neighbourhood, c and cr are in the same
\* cluster of the result get_clusters returns.
C13_MatchedTogether ==
    cl_pc = "done" =>
        \A m \in cl_matched :
            \E i \in DOMAIN cl_result :
                InSeq(m[1], cl_result[i]) /\ InSeq(m[2], cl_result[i])

\* C15: at every point of get_clusters and in its result, no crossroad is in two
\* clusters and none is twice in one cluster; every cluster of result has more
\* than one member.
C15_ClustersDisjoint ==
    cl_pc # "idle" =>
        /\ \A i, j \in DOMAIN ClustersNow :
               i # j => Range(ClustersNow[i]) \cap Range(ClustersNow[j]) = {}
        /\ \A i \in DOMAIN ClustersNow :
               \A a, b \in DOMAIN ClustersNow[i] :
                   a # b => ClustersNow[i][a] # ClustersNow[i][b]
        /\ \A i \in DOMAIN cl_result : Len(cl_result[i]) > 1

\* C15's case: a cluster of result was just absorbed by the cluster of a later
\* crossroad, whose neighbourhood relation is not symmetric
C15_Witness ==
    /\ cl_last = "merge"
    /\ Len(cl_cluster) >= 3
    /\ \E i, j \in DOMAIN cl_crossroads :
          /\ InSeq(cl_crossroads[j], get_crossroads_in_neighborhood(cl_crossroads[i], cl_crossroads))
          /\ ~InSeq(cl_crossroads[i], get_crossroads_in_neighborhood(cl_crossroads[j], cl_crossroads))

====
